---- MODULE Spec2Model ----
(***************************************************************************)
(* Webhook transaction service: idempotent ingestion (app/main.py),        *)
(* background completion threads (app/tasks_threaded.py), the transactions *)
(* table (app/models.py) and request validation (app/schemas.py).          *)
(*                                                                         *)
(* The table is a sequence of committed rows.  Every request and every     *)
(* background thread works in its own SQLAlchemy session: it reads         *)
(* committed rows only, keeps its pending changes to itself and publishes  *)
(* them in one commit step.  Steps of different requests and threads       *)
(* interleave freely.                                                      *)
(***************************************************************************)
EXTENDS Integers, Sequences, FiniteSets, TLC

\* ---------------------------------------------------------------- bounds
MaxReqs == 2

MaxWorkers == 2

MaxClock == 1

MaxCurrencyLen == 3

\* ------------------------------------------------------------- constants
\* processed_at is a nullable column: NULL is the SQL null of a timestamp.
NULL == -1

PROCESSING == "PROCESSING"

PROCESSED == "PROCESSED"

TransactionStatus == {PROCESSING, PROCESSED}

\* The identifiers the clients of the model send.
TxnIds == {"T1", "T2"}

\* ------------------------------------------------------------ validation
\* str.upper() on the characters of the model's alphabet.
UpperChar(c) ==
    CASE c = "u" -> "U"
      [] c = "s" -> "S"
      [] c = "d" -> "D"
      [] OTHER -> c

Upper(s) == [i \in DOMAIN s |-> UpperChar(s[i])]

Fields == {"transaction_id", "source_account", "destination_account", "amount", "currency"}

\* A JSON body: an object (a map from some field names to values) or
\* something that is no object (a JSON array).
Obj(f) == [kind |-> "object", fields |-> f]

NotAnObject == [kind |-> "array", fields |-> <<>>]

GoodFields(id) ==
    [transaction_id |-> id, source_account |-> "A", destination_account |-> "B",
     amount |-> 1050, currency |-> <<"u", "s", "d">>]

\* The same identifier delivered with other account, amount and currency.
OtherFields(id) ==
    [transaction_id |-> id, source_account |-> "C", destination_account |-> "D",
     amount |-> 99, currency |-> <<"U", "S", "D">>]

ValidBodies == {Obj(GoodFields(id)) : id \in TxnIds} \cup {Obj(OtherFields("T1"))}

InvalidBodies ==
    { Obj([GoodFields("T1") EXCEPT !.transaction_id = ""]),
      Obj([GoodFields("T1") EXCEPT !.amount = 0]),
      Obj([GoodFields("T2") EXCEPT !.amount = -5]),
      Obj([GoodFields("T1") EXCEPT !.currency = <<"u", "s">>]),
      Obj([f \in Fields \ {"amount"} |-> GoodFields("T2")[f]]) }

Bodies == ValidBodies \cup InvalidBodies \cup {NotAnObject}

\* WebhookRequest(**request.json) needs a mapping: anything else raises a
\* TypeError, which is no pydantic ValidationError.
IsMapping(b) == b.kind = "object"

\* The field constraints of WebhookRequest and validate_currency.
PassesValidation(b) ==
    /\ DOMAIN b.fields = Fields
    /\ b.fields.transaction_id # ""
    /\ b.fields.source_account # ""
    /\ b.fields.destination_account # ""
    /\ b.fields.amount > 0
    /\ Len(b.fields.currency) = 3

\* The validated request object: the currency is upper-cased.
WebhookRequest(b) == [b.fields EXCEPT !.currency = Upper(b.fields.currency)]

NoRequest == [transaction_id |-> "", source_account |-> "", destination_account |-> "",
              amount |-> 0, currency |-> <<>>]

\* ------------------------------------------------------------- the table
\* Mutation: created_at is taken from a clock that is ahead of the clock
\* processed_at is read from.
NewTransaction_Offset(wr, now) ==
    [transaction_id |-> wr.transaction_id,
     source_account |-> wr.source_account,
     destination_account |-> wr.destination_account,
     amount |-> wr.amount,
     currency |-> wr.currency,
     status |-> "PROCESSING",
     created_at |-> now + 1,
     processed_at |-> -1]

\* Transaction(...) as built by receive_webhook.
NewTransaction(wr, now) ==
    [transaction_id |-> wr.transaction_id,
     source_account |-> wr.source_account,
     destination_account |-> wr.destination_account,
     amount |-> wr.amount,
     currency |-> wr.currency,
     status |-> PROCESSING,
     created_at |-> now,
     processed_at |-> NULL]

NoTransaction == NewTransaction(NoRequest, 0)

RowsOf(tbl, id) == {i \in DOMAIN tbl : tbl[i].transaction_id = id}

\* query(Transaction).filter(transaction_id == id).first()
Exists(tbl, id) == RowsOf(tbl, id) # {}

First(tbl, id) == tbl[CHOOSE i \in RowsOf(tbl, id) : \A j \in RowsOf(tbl, id) : i <= j]

\* Mutation: the key column without its primary-key constraint.
UniqueViolation_Off(tbl, row) == FALSE

\* The primary key of the table: an INSERT of a present key fails.
UniqueViolation(tbl, row) == Exists(tbl, row.transaction_id)

\* INSERT of the session's pending row.
InsertRow(tbl, row) == Append(tbl, row)

\* Mutation: the UPDATE writes the status and leaves processed_at.
UpdateRow_StatusOnly(tbl, id, st, at) ==
    [i \in DOMAIN tbl |->
        IF tbl[i].transaction_id = id THEN [tbl[i] EXCEPT !.status = st] ELSE tbl[i]]

\* Mutation: the UPDATE has no WHERE clause.
UpdateRow_AllRows(tbl, id, st, at) ==
    [i \in DOMAIN tbl |-> [tbl[i] EXCEPT !.status = st, !.processed_at = at]]

\* Mutation: the finished record is deleted.
UpdateRow_Delete(tbl, id, st, at) ==
    SelectSeq(tbl, LAMBDA row : row.transaction_id # id)

\* The UPDATE the thread's commit flushes: both changed columns of the
\* row(s) with that key, in one statement.
UpdateRow(tbl, id, st, at) ==
    [i \in DOMAIN tbl |->
        IF tbl[i].transaction_id = id
        THEN [tbl[i] EXCEPT !.status = st, !.processed_at = at]
        ELSE tbl[i]]

\* ----------------------------------------------------------------- state
VARIABLES table, clock, req, threads, writes, got

vars == <<table, clock, req, threads, writes, got>>

Reqs == 1..MaxReqs

IdleReq == [pc |-> "idle", body |-> NotAnObject, wr |-> NoRequest,
            new_transaction |-> NoTransaction, code |-> 0, message |-> "",
            logged |-> ""]

\* No answer of get_transaction yet.
NoAnswer == [id |-> "", code |-> 0, error |-> "", body |-> <<>>]

Init ==
    /\ got = NoAnswer
    /\ table = <<>>
    /\ clock = 0
    /\ req = [r \in Reqs |-> IdleReq]
    /\ threads = <<>>
    /\ writes = [id \in TxnIds |-> 0]

\* The clock never goes back.
Tick ==
    /\ clock < MaxClock
    /\ clock' = clock + 1
    /\ UNCHANGED <<table, req, threads, writes, got>>

\* ------------------------------------------------------------- responses
MsgValidation == "Validation error"

MsgBeingProcessed == "Transaction already being processed"

MsgProcessed == "Transaction already processed"

MsgQueued == "Webhook received and queued for processing"

MsgDelayed == "Webhook received, processing may be delayed"

Respond(r, c, m) == [req EXCEPT ![r].pc = "done", ![r].code = c, ![r].message = m]

\* The except branch of receive_webhook: db.rollback() drops the pending row,
\* the exception is logged and the answer is 202.
RespondError(r, e) ==
    [req EXCEPT ![r].pc = "done", ![r].code = 202,
                ![r].message = MsgDelayed,
                ![r].logged = e]

\* ------------------------------------------------- receive_webhook steps
\* threading.Thread(target=process_transaction_background, args=(id,)).start():
\* the thread exists and has not touched the store yet.
NewThread(id, by) ==
    [tid |-> id, by |-> by, pc |-> "run", outcome |-> "", failed_at |-> "",
     transaction |-> NoTransaction]

\* A request arrives and its body is validated.  Requests are numbered in
\* the order of their arrival.
Receive(r, b) ==
    /\ req[r].pc = "idle"
    /\ IF r = 1 THEN TRUE ELSE req[r - 1].pc # "idle"
    /\ req' =
         IF ~IsMapping(b)
         THEN [RespondError(r, "TypeError") EXCEPT ![r].body = b]
         ELSE IF ~PassesValidation(b)
         THEN [Respond(r, 400, MsgValidation) EXCEPT ![r].body = b]
         ELSE [req EXCEPT ![r].pc = "query", ![r].body = b, ![r].wr = WebhookRequest(b)]
    /\ UNCHANGED <<table, clock, threads, writes, got>>

\* Mutation: a redelivery of a known identifier starts another thread.
Query_Requeue(r) ==
    /\ req[r].pc = "query"
    /\ IF Exists(table, req[r].wr.transaction_id)
       THEN /\ Len(threads) < MaxWorkers
            /\ threads' = Append(threads, NewThread(req[r].wr.transaction_id, r))
            /\ req' = Respond(r, 202, MsgQueued)
       ELSE /\ req' = [req EXCEPT ![r].pc = "build"]
            /\ threads' = threads
    /\ UNCHANGED <<table, clock, writes, got>>

\* The existence check and the two duplicate answers.
Query(r) ==
    /\ req[r].pc = "query"
    /\ req' =
         IF Exists(table, req[r].wr.transaction_id)
         THEN IF First(table, req[r].wr.transaction_id).status = PROCESSING
              THEN Respond(r, 202, MsgBeingProcessed)
              ELSE Respond(r, 202, MsgProcessed)
         ELSE [req EXCEPT ![r].pc = "build"]
    /\ UNCHANGED <<table, clock, threads, writes, got>>

\* Mutation: the thread is started before the row is committed.
Build_SpawnEarly(r) ==
    /\ req[r].pc = "build"
    /\ Len(threads) < MaxWorkers
    /\ threads' = Append(threads, NewThread(req[r].wr.transaction_id, r))
    /\ req' = [req EXCEPT ![r].pc = "commit",
                          ![r].new_transaction = NewTransaction(req[r].wr, clock)]
    /\ UNCHANGED <<table, clock, writes, got>>

\* The new row is built in the session; created_at is read from the clock.
Build(r) ==
    /\ req[r].pc = "build"
    /\ req' = [req EXCEPT ![r].pc = "commit",
                          ![r].new_transaction = NewTransaction(req[r].wr, clock)]
    /\ UNCHANGED <<table, clock, threads, writes, got>>

\* Mutation: db.merge() in place of db.add(): the row of a present key is
\* overwritten by the pending one.
Commit_Merge(r) ==
    /\ req[r].pc = "commit"
    /\ req' = [req EXCEPT ![r].pc = "spawn"]
    /\ table' =
         IF Exists(table, req[r].new_transaction.transaction_id)
         THEN [i \in DOMAIN table |->
                 IF table[i].transaction_id = req[r].new_transaction.transaction_id
                 THEN req[r].new_transaction
                 ELSE table[i]]
         ELSE InsertRow(table, req[r].new_transaction)
    /\ UNCHANGED <<clock, threads, writes, got>>

\* db.commit(): the INSERT, or the IntegrityError of a present key, which the
\* handler answers after db.rollback().
Commit(r) ==
    /\ req[r].pc = "commit"
    /\ IF UniqueViolation(table, req[r].new_transaction)
       THEN /\ req' = RespondError(r, "IntegrityError")
            /\ table' = table
       ELSE /\ req' = [req EXCEPT ![r].pc = "spawn"]
            /\ table' = InsertRow(table, req[r].new_transaction)
    /\ UNCHANGED <<clock, threads, writes, got>>

\* Mutation: the error of the store is not caught and Flask answers 500.
StoreError_Unhandled(r) ==
    /\ req[r].pc \in {"query", "commit"}
    /\ req' = [Respond(r, 500, "Internal Server Error") EXCEPT ![r].logged = "OperationalError"]
    /\ UNCHANGED <<table, clock, threads, writes, got>>

\* Mutation: the error at the commit comes after the INSERT took effect.
StoreError_NoRollback(r) ==
    /\ req[r].pc \in {"query", "commit"}
    /\ req' = RespondError(r, "OperationalError")
    /\ table' =
         IF req[r].pc = "commit" /\ ~UniqueViolation(table, req[r].new_transaction)
         THEN InsertRow(table, req[r].new_transaction)
         ELSE table
    /\ UNCHANGED <<clock, threads, writes, got>>

\* Any other error of the store while reading or writing: rollback, 202.
StoreError(r) ==
    /\ req[r].pc \in {"query", "commit"}
    /\ req' = RespondError(r, "OperationalError")
    /\ UNCHANGED <<table, clock, threads, writes, got>>

\* Mutation: the acknowledgment is returned and no thread is started.
Spawn_NoThread(r) ==
    /\ req[r].pc = "spawn"
    /\ req' = Respond(r, 202, MsgQueued)
    /\ UNCHANGED <<table, clock, threads, writes, got>>

\* Mutation: thread.run() in place of thread.start(): the completion runs
\* inside the request, which answers when it is over.
Spawn_Run(r) ==
    /\ req[r].pc = "spawn"
    /\ Len(threads) < MaxWorkers
    /\ threads' = Append(threads, [NewThread(req[r].wr.transaction_id, r) EXCEPT
                                      !.pc = "done", !.outcome = "processed"])
    /\ table' = UpdateRow(table, req[r].wr.transaction_id, PROCESSED, clock)
    /\ writes' = [writes EXCEPT ![req[r].wr.transaction_id] = @ + 1]
    /\ req' = Respond(r, 202, MsgQueued)
    /\ UNCHANGED <<clock, got>>

\* process_transaction_async(id), then the acknowledgment.
Spawn(r) ==
    /\ req[r].pc = "spawn"
    /\ Len(threads) < MaxWorkers
    /\ threads' = Append(threads, NewThread(req[r].wr.transaction_id, r))
    /\ req' = Respond(r, 202, MsgQueued)
    /\ UNCHANGED <<table, clock, writes, got>>

\* -------------------------------- process_transaction_background steps
Finish(w, how) == [threads EXCEPT ![w].pc = "done", ![w].outcome = how]

\* Mutation: no check of the query's result: transaction.status on None
\* raises, and the thread ends in its except branch.
WorkerQuery_NoNoneCheck(w) ==
    /\ threads[w].pc = "run"
    /\ threads' =
         IF ~Exists(table, threads[w].tid)
         THEN [threads EXCEPT ![w].pc = "done", ![w].outcome = "AttributeError",
                              ![w].failed_at = "run"]
         ELSE IF First(table, threads[w].tid).status = PROCESSED
         THEN Finish(w, "already processed")
         ELSE [threads EXCEPT ![w].pc = "modify",
                              ![w].transaction = First(table, threads[w].tid)]
    /\ UNCHANGED <<table, clock, req, writes, got>>

\* time.sleep(30) is over, the thread opens its session, reads the row and
\* returns early when it is absent or PROCESSED.
WorkerQuery(w) ==
    /\ threads[w].pc = "run"
    /\ threads' =
         IF ~Exists(table, threads[w].tid)
         THEN Finish(w, "not found")
         ELSE IF First(table, threads[w].tid).status = PROCESSED
         THEN Finish(w, "already processed")
         ELSE [threads EXCEPT ![w].pc = "modify",
                              ![w].transaction = First(table, threads[w].tid)]
    /\ UNCHANGED <<table, clock, req, writes, got>>

\* The two assignments on the session's object; processed_at reads the clock.
WorkerModify(w) ==
    /\ threads[w].pc = "modify"
    /\ threads' = [threads EXCEPT ![w].pc = "commit",
                                  ![w].transaction.status = PROCESSED,
                                  ![w].transaction.processed_at = clock]
    /\ UNCHANGED <<table, clock, req, writes, got>>

\* db.commit(): the UPDATE of status and processed_at.  writes counts the
\* committed writes of threads per identifier.
WorkerCommit(w) ==
    /\ threads[w].pc = "commit"
    /\ table' = UpdateRow(table, threads[w].tid, threads[w].transaction.status,
                          threads[w].transaction.processed_at)
    /\ writes' = [writes EXCEPT ![threads[w].tid] = @ + 1]
    /\ threads' = Finish(w, "processed")
    /\ UNCHANGED <<clock, req, got>>

\* An error in the unit of work or the read ("run"), or in the commit: the
\* pending update is rolled back, the error is logged, nothing retries.
WorkerError(w) ==
    /\ threads[w].pc \in {"run", "commit"}
    /\ threads' = [threads EXCEPT ![w].pc = "done",
                                  ![w].outcome = "error",
                                  ![w].failed_at = threads[w].pc,
                                  ![w].transaction = NoTransaction]
    /\ UNCHANGED <<table, clock, req, writes, got>>

\* ------------------------------------------------- get_transaction steps
\* serialize_datetime: None stays None, a timestamp is formatted.
SerializeDatetime(v) == IF v = NULL THEN NULL ELSE v

\* TransactionResponse.model_validate(row).model_dump(mode='json')
TransactionResponse(row) ==
    [transaction_id |-> row.transaction_id,
     source_account |-> row.source_account,
     destination_account |-> row.destination_account,
     amount |-> row.amount,
     currency |-> row.currency,
     status |-> row.status,
     created_at |-> SerializeDatetime(row.created_at),
     processed_at |-> SerializeDatetime(row.processed_at)]

\* Mutation: no abort(404): an absent record is answered 200 with an empty
\* array.
Get_NoAbort(id) ==
    /\ got' =
         IF Exists(table, id)
         THEN [id |-> id, code |-> 200, error |-> "",
               body |-> <<TransactionResponse(First(table, id))>>]
         ELSE [id |-> id, code |-> 200, error |-> "", body |-> <<>>]
    /\ UNCHANGED <<table, clock, req, threads, writes>>

\* GET /v1/transactions/<id>: one read of the committed table; 404 when no
\* row is found, else 200 with a one-element array.  got is the last answer.
Get(id) ==
    /\ got' =
         IF Exists(table, id)
         THEN [id |-> id, code |-> 200, error |-> "",
               body |-> <<TransactionResponse(First(table, id))>>]
         ELSE [id |-> id, code |-> 404, error |-> "Not Found", body |-> <<>>]
    /\ UNCHANGED <<table, clock, req, threads, writes>>

\* get_transaction has no except branch: an error of the store while reading
\* leaves the handler as an unhandled exception and Flask answers 500.
GetError(id) ==
    /\ got' = [id |-> id, code |-> 500, error |-> "Internal Server Error", body |-> <<>>]
    /\ UNCHANGED <<table, clock, req, threads, writes>>

\* A direct call of process_transaction_async(id), as a test of concurrent
\* completion triggers makes it.
Trigger(id) ==
    /\ Len(threads) < MaxWorkers
    /\ threads' = Append(threads, NewThread(id, 0))
    /\ UNCHANGED <<table, clock, req, writes, got>>

\* -------------------------------------------------------- specifications
Handle(r) ==
    \/ Query(r)
    \/ Build(r)
    \/ Commit(r)
    \/ Spawn(r)

Work(w) ==
    \/ WorkerQuery(w)
    \/ WorkerModify(w)
    \/ WorkerCommit(w)
    \/ WorkerError(w)

Next ==
    \/ Tick
    \/ \E r \in Reqs, b \in Bodies : Receive(r, b)
    \/ \E r \in Reqs : Handle(r)
    \/ \E r \in Reqs : StoreError(r)
    \/ \E w \in DOMAIN threads : Work(w)

\* The service as deployed: threads are started by receive_webhook only.
Spec == Init /\ [][Next]_vars

\* The trigger scenario: one delivery creates the record of T1, and
\* completion triggers are made directly, for T1 and for T2, which has no row.
NextRace ==
    \/ Tick
    \/ Receive(1, Obj(GoodFields("T1")))
    \/ Handle(1)
    \/ \E w \in DOMAIN threads : Work(w)
    \/ \E id \in TxnIds : Trigger(id)

\* The service with completion triggers also made directly, for identifiers
\* with and without a row.
SpecRace == Init /\ [][NextRace]_vars

\* The deliveries of the query scenario: one payload per identifier.
QueryBodies == {Obj(GoodFields(id)) : id \in TxnIds}

NextQuery ==
    \/ \E r \in Reqs, b \in QueryBodies : Receive(r, b)
    \/ \E r \in Reqs : Handle(r)
    \/ \E w \in DOMAIN threads : Work(w)
    \/ \E id \in TxnIds : Get(id)
    \/ \E id \in TxnIds : GetError(id)

\* Ingestion and completion with queries of get_transaction running
\* concurrently, within one reading of the clock.
SpecQuery == Init /\ [][NextQuery]_vars

\* The characters of the currency codes a client may send: a lowercase
\* letter, an uppercase letter, a digit and a character that is neither.
Alphabet == {"u", "S", "1", "-"}

Currencies == UNION {[1..n -> Alphabet] : n \in 0..MaxCurrencyLen}

CurrencyBody(c) == Obj([GoodFields("T1") EXCEPT !.currency = c])

NextCurrency ==
    \/ \E c \in Currencies : Receive(1, CurrencyBody(c))
    \/ Handle(1)

\* One delivery with any currency code over the alphabet, validated and
\* inserted.
SpecCurrency == Init /\ [][NextCurrency]_vars

\* The steps of a thread that meets no error.
WorkOk(w) ==
    \/ WorkerQuery(w)
    \/ WorkerModify(w)
    \/ WorkerCommit(w)

NextLive ==
    \/ \E r \in Reqs, b \in QueryBodies : Receive(r, b)
    \/ \E r \in Reqs : Handle(r)
    \/ \E w \in DOMAIN threads : WorkOk(w)
    \/ \E id \in TxnIds : Get(id)

\* Every request handler and every started thread keeps being scheduled.
Fairness ==
    /\ \A r \in Reqs : WF_vars(Handle(r))
    /\ \A w \in 1..MaxWorkers : WF_vars(w \in DOMAIN threads /\ WorkOk(w))

\* The service with no error of the store and no shutdown, under fair
\* scheduling of its handlers and threads.
SpecLive == Init /\ [][NextLive]_vars /\ Fairness

\* ---------------------------------------------------------------- claims
IdOf(r) == req[r].wr.transaction_id

Threads == DOMAIN threads

OneRowPerId ==
    \A i, j \in DOMAIN table :
        table[i].transaction_id = table[j].transaction_id => i = j

\* A commit step of request r that finds the key of its pending row present.
LosesInsert(r) ==
    /\ req[r].pc = "commit"
    /\ req'[r].pc # "commit"
    /\ Exists(table, req[r].new_transaction.transaction_id)

\* C1: the table holds at most one row per transaction_id in every state,
\* also when two requests for one identifier both pass the existence check
\* before either commits; the commit that finds the key present inserts
\* nothing, leaves the table as it is, starts no thread and ends the request.
C1_OneRowPerTransactionId ==
    /\ OneRowPerId
    /\ [][ /\ OneRowPerId'
           /\ \A r \in Reqs :
                LosesInsert(r) =>
                    /\ table' = table
                    /\ threads' = threads
                    /\ req'[r].pc = "done"
                    /\ req'[r].code = 202 ]_vars

\* Two requests for one identifier both built a row; one was committed and
\* acknowledged, the other lost the insert with an IntegrityError.
C1_Witness ==
    \E r1, r2 \in Reqs :
        /\ r1 # r2
        /\ IdOf(r1) = IdOf(r2)
        /\ req[r1].message = MsgQueued
        /\ req[r2].pc = "done"
        /\ req[r2].logged = "IntegrityError"
        /\ Cardinality(RowsOf(table, IdOf(r1))) = 1
        /\ First(table, IdOf(r1)).source_account = req[r1].wr.source_account

\* C2: concurrent completion threads for one identifier whose record is
\* PROCESSING commit exactly one write of status and processed_at.
C2_ExactlyOneTransition == \A id \in TxnIds : writes[id] <= 1

\* C3: a status is PROCESSING or PROCESSED, a row enters the table as
\* PROCESSING, the only change of a status is PROCESSING -> PROCESSED, no row
\* leaves the table, and a PROCESSED row is never written again.
C3_StatusMonotone ==
    [][ /\ \A i \in DOMAIN table' : table'[i].status \in TransactionStatus
        /\ \A i \in DOMAIN table' \ DOMAIN table : table'[i].status = PROCESSING
        /\ \A i \in DOMAIN table :
             /\ i \in DOMAIN table'
             /\ table'[i].status # table[i].status =>
                    table[i].status = PROCESSING /\ table'[i].status = PROCESSED
             /\ table[i].status = PROCESSED =>
                    /\ table'[i] = table[i]
                    /\ writes'[table[i].transaction_id] = writes[table[i].transaction_id]
      ]_vars

\* A PROCESSED record that a later delivery of its identifier has met.
C3_Witness ==
    \E r \in Reqs :
        /\ req[r].message = MsgProcessed
        /\ Exists(table, IdOf(r))
        /\ First(table, IdOf(r)).status = PROCESSED
        /\ writes[IdOf(r)] = 1

\* C4: in every committed state of the table processed_at is set exactly on
\* the PROCESSED rows.
C4_ProcessedAtIffProcessed ==
    \A i \in DOMAIN table :
        (table[i].processed_at # NULL) <=> (table[i].status = PROCESSED)

\* A thread has committed its update while another record is still PROCESSING.
C4_Witness ==
    /\ \E i \in DOMAIN table : table[i].status = PROCESSED /\ table[i].processed_at # NULL
    /\ \E i \in DOMAIN table : table[i].status = PROCESSING /\ table[i].processed_at = NULL

\* The existence check of request r runs (or fails on a store error) while
\* the record of its identifier is in status st.
ChecksDuplicate(r, st) ==
    /\ req[r].pc = "query"
    /\ req'[r] # req[r]
    /\ Exists(table, IdOf(r))
    /\ First(table, IdOf(r)).status = st

\* C5: a webhook for an identifier whose record is PROCESSING is answered
\* 202 in that step, with the table (the row count, created_at and every
\* field) and the threads unchanged, whatever its payload carries.
C5_DuplicateWhileProcessing ==
    [][ \A r \in Reqs :
          ChecksDuplicate(r, PROCESSING) =>
              /\ req'[r].pc = "done"
              /\ req'[r].code = 202
              /\ table' = table
              /\ threads' = threads ]_vars

\* A redelivery with other accounts, amount and clock reading was answered
\* "already being processed" and the record is the first writer's.
C5_Witness ==
    \E r1, r2 \in Reqs :
        /\ req[r1].message = MsgQueued
        /\ req[r2].message = MsgBeingProcessed
        /\ IdOf(r1) = IdOf(r2)
        /\ req[r2].wr.source_account # req[r1].wr.source_account
        /\ req[r2].wr.amount # req[r1].wr.amount
        /\ table = <<req[r1].new_transaction>>
        /\ clock > table[1].created_at

\* C6: a webhook for an identifier whose record is PROCESSED is answered 202
\* in that step, with the table and the threads unchanged.
C6_DuplicateAfterProcessed ==
    [][ \A r \in Reqs :
          ChecksDuplicate(r, PROCESSED) =>
              /\ req'[r].pc = "done"
              /\ req'[r].code = 202
              /\ table' = table
              /\ threads' = threads ]_vars

\* A redelivery was answered "already processed"; the record kept its
\* processed_at and no second thread exists.
C6_Witness ==
    \E r \in Reqs :
        /\ req[r].message = MsgProcessed
        /\ req[r].code = 202
        /\ First(table, IdOf(r)).processed_at # NULL
        /\ clock > First(table, IdOf(r)).processed_at
        /\ Len(threads) = 1

\* C7: every thread that exists was started for an identifier whose row is
\* committed, and every request that was answered "queued for processing"
\* has its row in the table.
C7_InsertBeforeSchedule ==
    /\ \A w \in Threads : Exists(table, threads[w].tid)
    /\ \A r \in Reqs : req[r].message = MsgQueued => Exists(table, IdOf(r))

\* A thread was started and the acknowledgment returned before the thread ran.
C7_Witness ==
    \E r \in Reqs, w \in Threads :
        /\ req[r].message = MsgQueued
        /\ threads[w].by = r
        /\ threads[w].pc = "run"
        /\ First(table, IdOf(r)) = req[r].new_transaction

ValidBody(b) == IsMapping(b) /\ PassesValidation(b)

\* C8: every finished request whose payload passes validation was answered
\* 202, whatever happened at the store.
C8_ValidAlways202 ==
    \A r \in Reqs :
        (req[r].pc = "done" /\ ValidBody(req[r].body)) => req[r].code = 202

\* A valid request for a new identifier ended on an error of the store at its
\* commit and another was queued; both were answered 202.
C8_Witness ==
    \E r1, r2 \in Reqs :
        /\ ValidBody(req[r1].body) /\ ValidBody(req[r2].body)
        /\ req[r1].logged = "OperationalError" /\ req[r1].code = 202
        /\ req[r1].new_transaction.transaction_id = IdOf(r1)
        /\ req[r2].message = MsgQueued /\ req[r2].code = 202

\* C9: every finished request whose payload fails validation, a body that is
\* no JSON object included, was answered 400.
C9_InvalidAlways400 ==
    \A r \in Reqs :
        (req[r].pc = "done" /\ ~ValidBody(req[r].body)) => req[r].code = 400

\* A thread for the identifier has ended in an error.
Stuck(id) == \E w \in Threads : threads[w].tid = id /\ threads[w].outcome = "error"

ThreadsOf(id) == {w \in Threads : threads[w].tid = id}

\* C10: once the thread of an identifier has failed, the record is and stays
\* PROCESSING with processed_at null, and no thread is started for that
\* identifier again.
C10_FailedStaysProcessing ==
    [][ \A id \in TxnIds :
          Stuck(id) =>
              /\ Stuck(id)'
              /\ First(table', id).status = PROCESSING
              /\ First(table', id).processed_at = NULL
              /\ \A w \in Threads' : threads'[w].tid = id => w \in ThreadsOf(id) ]_vars

\* The thread failed at its commit, and a redelivery after that was answered
\* "already being processed" without a new thread.
C10_Witness ==
    \E r \in Reqs, w \in Threads :
        /\ threads[w].outcome = "error"
        /\ threads[w].failed_at = "commit"
        /\ threads[w].by # r
        /\ IdOf(r) = threads[w].tid
        /\ req[r].message = MsgBeingProcessed
        /\ r > threads[w].by
        /\ ThreadsOf(IdOf(r)) = {w}
        /\ First(table, IdOf(r)).status = PROCESSING

Done(id) ==
    /\ Exists(table, id)
    /\ First(table, id).status = PROCESSED
    /\ First(table, id).processed_at # NULL

\* C11: with fair scheduling, no error of the store and no shutdown, every
\* record that is inserted is eventually PROCESSED with processed_at set and
\* stays so, and every query answered from then on shows it as PROCESSED.
C11_EventuallyProcessed ==
    /\ \A id \in TxnIds : Exists(table, id) ~> [] Done(id)
    /\ [][ \A id \in TxnIds :
             (Done(id) /\ got' # got /\ got'.id = id) =>
                 /\ got'.code = 200
                 /\ got'.body[1].status = PROCESSED
                 /\ got'.body[1].processed_at # NULL ]_vars

\* Both records are PROCESSED and the last query was answered with one of them.
C11_Witness ==
    /\ \A id \in TxnIds : Done(id)
    /\ got.code = 200
    /\ got.body[1].status = PROCESSED
    /\ got.body[1].processed_at = First(table, got.id).processed_at

\* C12: every record whose processed_at is set has created_at <= processed_at,
\* also when several threads write the same record.
C12_CreatedBeforeProcessed ==
    \A i \in DOMAIN table :
        table[i].processed_at # NULL => table[i].created_at <= table[i].processed_at

\* Two threads have written the record, after the clock moved on from its
\* created_at.
C12_Witness ==
    /\ writes["T1"] = 2
    /\ First(table, "T1").created_at < First(table, "T1").processed_at

\* A step of get_transaction that is seen (its answer differs from the last).
Answers == got' # got

NoSideEffect == UNCHANGED <<table, clock, req, threads, writes>>

\* The answer reflects the table: 200 with the serialized row when a row of
\* the identifier exists, 404 with no data when none exists.
Reflects ==
    IF Exists(table, got'.id)
    THEN got'.code = 200 /\ got'.body = <<TransactionResponse(First(table, got'.id))>>
    ELSE got'.code = 404 /\ got'.body = <<>>

\* C13 as stated: every query leaves the records and the threads unchanged
\* and answers 200 with the committed record when a row exists and 404
\* exactly when none exists.
C13_QueryReflectsStore == [][ Answers => (NoSideEffect /\ Reflects) ]_vars

\* C13 as amended: every query leaves the records and the threads unchanged;
\* when its read of the store succeeds it answers 200 with the committed
\* record when a row exists and 404 exactly when none exists, and when the
\* read fails it answers 500 with no data.
C13_QueryReflectsStoreUnlessError ==
    [][ Answers =>
          /\ NoSideEffect
          /\ got'.code \in {200, 404, 500}
          /\ got'.code # 500 => Reflects
          /\ got'.code = 500 => got'.body = <<>> ]_vars

\* A query ran while the thread of the record was about to commit: it was
\* answered with the record as PROCESSING, and the record is PROCESSED now.
C13_Witness ==
    /\ got.code = 200
    /\ got.body[1].status = PROCESSING
    /\ Exists(table, got.id)
    /\ First(table, got.id).status = PROCESSED
    /\ got.body[1].created_at = First(table, got.id).created_at

\* C14: no row ever leaves the table or changes its identifier, and once a
\* request for an identifier was answered "queued for processing" no query for
\* that identifier is answered 404.
C14_NeverDeleted ==
    [][ /\ \A i \in DOMAIN table :
             i \in DOMAIN table' /\ table'[i].transaction_id = table[i].transaction_id
        /\ \A r \in Reqs :
             (req[r].message = MsgQueued /\ Answers /\ got'.id = IdOf(r)) =>
                 got'.code # 404 ]_vars

\* The record was queued, its thread has committed, and a query for it was
\* answered 200 after that.
C14_Witness ==
    \E r \in Reqs, w \in Threads :
        /\ req[r].message = MsgQueued
        /\ threads[w].by = r
        /\ threads[w].outcome = "processed"
        /\ got.id = IdOf(r)
        /\ got.code = 200
        /\ got.body[1].status = PROCESSED

UppercaseLetters == {"U", "S", "D"}

\* C15: the currency of every record in the table is exactly 3 uppercase
\* letters, whatever payload the validator accepted.
C15_CurrencyThreeUppercaseLetters ==
    \A i \in DOMAIN table :
        /\ Len(table[i].currency) = 3
        /\ \A k \in 1..3 : table[i].currency[k] \in UppercaseLetters

\* C16: at most one thread is ever started per identifier; it is started by
\* the request whose insert committed, a request that lost the insert starts
\* none, and the record is written once when that thread succeeds.
C16_OneWorkerPerId ==
    /\ \A id \in TxnIds : Cardinality(ThreadsOf(id)) <= 1
    /\ \A id \in TxnIds : writes[id] <= 1
    /\ \A w \in Threads :
         /\ threads[w].by \in Reqs
         /\ IdOf(threads[w].by) = threads[w].tid
         /\ req[threads[w].by].message = MsgQueued
         /\ First(table, threads[w].tid).created_at
                = req[threads[w].by].new_transaction.created_at
         /\ threads[w].outcome = "processed" => writes[threads[w].tid] = 1
    /\ \A r \in Reqs :
         req[r].logged # "" => \A w \in Threads : threads[w].by # r

\* Two deliveries of one identifier raced for the insert; the loser started
\* no thread, and the winner's thread has written the record once.
C16_Witness ==
    \E r1, r2 \in Reqs, w \in Threads :
        /\ IdOf(r1) = IdOf(r2)
        /\ req[r1].message = MsgQueued
        /\ req[r2].logged = "IntegrityError"
        /\ ThreadsOf(IdOf(r1)) = {w}
        /\ threads[w].by = r1
        /\ threads[w].outcome = "processed"
        /\ writes[IdOf(r1)] = 1

\* A step of thread w.
WorkerStep(w) == w \in Threads /\ threads'[w] # threads[w]

\* C17: a step of a thread for identifier X adds and removes no row, leaves
\* every row of another identifier as it is, and changes nothing but status
\* and processed_at in the rows of X.
C17_WorkerWritesOnlyItsStatus ==
    [][ \A w \in Threads :
          WorkerStep(w) =>
              /\ DOMAIN table' = DOMAIN table
              /\ \A i \in DOMAIN table :
                   /\ table[i].transaction_id # threads[w].tid => table'[i] = table[i]
                   /\ table'[i] = [table[i] EXCEPT !.status = table'[i].status,
                                                   !.processed_at = table'[i].processed_at]
      ]_vars

\* A thread has written its record while the record of the other identifier,
\* inserted before that write, is untouched.
C17_Witness ==
    \E w \in Threads, r \in Reqs :
        /\ threads[w].outcome = "processed"
        /\ IdOf(r) # threads[w].tid
        /\ Exists(table, IdOf(r))
        /\ First(table, IdOf(r)) = req[r].new_transaction
        /\ table[1].transaction_id = IdOf(r)
        /\ First(table, threads[w].tid).status = PROCESSED

\* A step of request r that ends in the except branch on an error of the store.
FailsOnStore(r) ==
    /\ req[r].pc \in {"query", "commit"}
    /\ req'[r].logged = "OperationalError"

\* C18: a request that fails on an error of the store before its insert
\* commits is answered 202, leaves the table and the threads as they are (no
\* row of its identifier appears), and a later request that finds no row of
\* the identifier goes on to insert it as a first sight.
C18_FailedIngestionLeavesNoRow ==
    [][ \A r \in Reqs :
          /\ FailsOnStore(r) =>
                /\ req'[r].pc = "done"
                /\ req'[r].code = 202
                /\ table' = table
                /\ threads' = threads
          /\ (req[r].pc = "query" /\ req'[r] # req[r] /\ ~FailsOnStore(r)
                /\ ~Exists(table, IdOf(r))) => req'[r].pc = "build"
          /\ (req[r].pc = "commit" /\ req'[r] # req[r] /\ ~FailsOnStore(r)
                /\ ~Exists(table, IdOf(r))) =>
                    /\ req'[r].pc = "spawn"
                    /\ First(table', IdOf(r)) = req[r].new_transaction
                    /\ First(table', IdOf(r)).status = PROCESSING ]_vars

\* The first delivery failed at its commit and left no row; the redelivery
\* inserted the record and started its thread.
C18_Witness ==
    \E r1, r2 \in Reqs, w \in Threads :
        /\ r1 < r2
        /\ IdOf(r1) = IdOf(r2)
        /\ req[r1].logged = "OperationalError"
        /\ req[r1].new_transaction.transaction_id = IdOf(r1)
        /\ req[r2].message = MsgQueued
        /\ table = <<req[r2].new_transaction>>
        /\ threads[w].by = r2

\* C19: the first step of a thread whose identifier has no row ends the
\* thread and writes nothing; unless the unit of work or the read itself
\* failed (outcome "error"), the thread ends "not found", with no exception.
C19_WorkerAbortsWhenAbsent ==
    [][ \A w \in Threads :
          (WorkerStep(w) /\ threads[w].pc = "run" /\ ~Exists(table, threads[w].tid)) =>
              /\ threads'[w].pc = "done"
              /\ threads'[w].outcome \in {"not found", "error"}
              /\ threads'[w].outcome = "error" => threads'[w].failed_at = "run"
              /\ threads'[w].transaction = NoTransaction
              /\ table' = table
              /\ writes' = writes ]_vars

\* A thread for T2, which has no row, has ended "not found" beside the
\* record of T1.
C19_Witness ==
    \E w \in Threads :
        /\ threads[w].tid = "T2"
        /\ threads[w].outcome = "not found"
        /\ ~Exists(table, "T2")
        /\ Exists(table, "T1")
        /\ writes["T2"] = 0

\* C20: the step that starts the thread returns the acknowledgment in the
\* same step: the new thread has not run, no thread has moved and the table
\* is as it was.
C20_AckDoesNotWait ==
    [][ \A r \in Reqs :
          (req[r].pc = "spawn" /\ req'[r] # req[r]) =>
              /\ req'[r].pc = "done"
              /\ req'[r].message = MsgQueued
              /\ req'[r].code = 202
              /\ table' = table
              /\ Len(threads') = Len(threads) + 1
              /\ threads'[Len(threads')].pc = "run"
              /\ \A w \in Threads : threads'[w] = threads[w] ]_vars

\* The acknowledgment was returned, the thread has not run, and a query was
\* answered with the record as PROCESSING with processed_at null.
C20_Witness ==
    \E r \in Reqs, w \in Threads :
        /\ req[r].message = MsgQueued
        /\ threads[w].by = r
        /\ threads[w].pc = "run"
        /\ got.id = IdOf(r)
        /\ got.code = 200
        /\ got.body[1].status = PROCESSING
        /\ got.body[1].processed_at = NULL

====
